---- MODULE Spec2Model ----
(***************************************************************************)
(* Workspace provisioning and screenshot-capture orchestration of the      *)
(* proctored coding-assessment platform.                                   *)
(*                                                                         *)
(*   SpecProv   container-manager: spinUpContainer, stopContainer,         *)
(*              cleanupUserContainers, cleanupAllContainers                *)
(*   Spec       the capture routes of registerRoutes, one request after    *)
(*              the other, over PuppeteerScreenshotService and             *)
(*              MongoDBService                                             *)
(*   SpecRace   two concurrent POST /api/capture-screenshot requests       *)
(*   SpecBulk   POST /api/admin/capture-all-screenshots                    *)
(*   SpecContent manual captures over the pages a codespace can show       *)
(*   SpecClient the periodic capture effect of StudentDashboard            *)
(*   SpecLaunch handleLaunchCodespace of StudentDashboard over the route   *)
(*              of /api/container/spin-up                                  *)
(*   SpecSubmit the route of /api/submit for a student who launched a      *)
(*              workspace                                                  *)
(*   SpecService the shared browser of PuppeteerScreenshotService and the  *)
(*              SIGINT/SIGTERM listeners of the process                    *)
(*                                                                         *)
(* Every `await` of the source is a point where another call may run, so   *)
(* each action is the synchronous code between two awaits.                 *)
(***************************************************************************)
EXTENDS Integers, Sequences, FiniteSets, TLC

VARIABLES
    activeContainers,   \* the Map<number,string[]>: its entries in insertion order,
                        \* each with the string[] that set() created for it
    docker,             \* container id -> state at the Docker daemon
    owner,              \* container id -> userId in its name codespace_<userId>_...
    prov,               \* one call frame per concurrent caller
    cap,                \* one frame per capture task: its route and its position
    files,              \* the screenshots/ staging directory: path -> bytes
    store,              \* the `screenshots` collection, in insertion order
    logs,               \* the `logs` collection, in insertion order
    submissions,        \* the submissions table
    now,                \* the last millisecond a filename timestamp was read at
    started,            \* capture requests received so far
    codespaceUrl,       \* the codespaceUrl state of StudentDashboard
    subject,            \* its subject state
    interval,           \* the timer id the current effect holds, 0 for none
    timers,             \* the live intervals of the page
    inflight,           \* the periodic capture requests awaiting their response
    sent,               \* periodic capture requests sent so far
    launch,             \* handleLaunchCodespace of the page: its position and state
    svc                 \* PuppeteerScreenshotService and the shutdown of the process

provVars == <<activeContainers, docker, owner, prov>>

capVars == <<cap, files, store, logs, submissions, now, started>>

clientVars == <<codespaceUrl, subject, interval, timers, inflight, sent, launch, svc>>

vars == <<activeContainers, docker, owner, prov,
          cap, files, store, logs, submissions, now, started,
          codespaceUrl, subject, interval, timers, inflight, sent, launch, svc>>

(***************************************************************************)
(* Bounds and input sets                                                   *)
(***************************************************************************)
MaxContainers == 2

Users == {1, 2}
Procs == {"p1", "p2"}
ContainerIds == 1..MaxContainers

\* keys of subjectToImage
SupportedSubjects == {"JavaScript", "Java", "C++", "Python"}
\* subjects the callers send: a supported one, one that has no image, and
\* one that names a property every object inherits
SubjectInputs == {"JavaScript", "Ruby", "constructor"}

\* property names the object literal inherits from Object.prototype
InheritedKeys == {"constructor", "toString", "valueOf", "hasOwnProperty"}

subjectToImage(subj) ==
    CASE subj = "JavaScript" -> "codespace-javascript"
      [] subj = "Java"       -> "codespace-java"
      [] subj = "C++"        -> "codespace-cpp"
      [] subj = "Python"     -> "codespace-python"
      [] subj \in InheritedKeys -> "function"
      [] OTHER                  -> "undefined"

\* the status POST /api/container/spin-up answers with, from the outcome of
\* spinUpContainer
SpinUpStatus(o) ==
    CASE o = "returned"    -> 200
      [] o = "unsupported" -> 400
      [] OTHER             -> 500

(***************************************************************************)
(* The Map and the arrays it holds.  An entry is [key, arr, live]: set()   *)
(* appends an entry with a new array, delete() and clear() end entries.    *)
(* An ended entry stays while a running loop still holds its array or a    *)
(* position before it (JavaScript iterators are live), and is dropped      *)
(* once nothing can reach it.                                              *)
(***************************************************************************)
\* index of the live entry of key u, 0 when the Map has no such key
MapIndex(m, u) ==
    IF \E i \in DOMAIN m : m[i].live /\ m[i].key = u
    THEN CHOOSE i \in DOMAIN m : m[i].live /\ m[i].key = u
    ELSE 0

MapHas(m, u) == MapIndex(m, u) # 0

\* activeContainers.delete(u)
MapDelete(m, u) ==
    [i \in DOMAIN m |-> IF m[i].key = u THEN [m[i] EXCEPT !.live = FALSE] ELSE m[i]]

\* activeContainers.clear()
MapClear(m) == [i \in DOMAIN m |-> [m[i] EXCEPT !.live = FALSE]]

\* the entry a live Map iterator standing at position it yields next, 0 at the end
MapNext(m, it) ==
    IF \E j \in DOMAIN m : j > it /\ m[j].live
    THEN CHOOSE j \in DOMAIN m :
            /\ j > it /\ m[j].live
            /\ \A k \in DOMAIN m : (k > it /\ m[k].live) => j <= k
    ELSE 0

\* containers.indexOf(x), counted from 1; 0 for -1
IndexOf(s, x) ==
    IF \E i \in DOMAIN s : s[i] = x
    THEN CHOOSE i \in DOMAIN s : s[i] = x /\ \A k \in DOMAIN s : s[k] = x => i <= k
    ELSE 0

\* containers.splice(index, 1)
Splice(s, i) == [k \in 1..(Len(s) - 1) |-> IF k < i THEN s[k] ELSE s[k + 1]]

\* container ids tracked under user u
Tracked(u) ==
    IF MapHas(activeContainers, u)
    THEN {activeContainers[MapIndex(activeContainers, u)].arr[i] :
             i \in DOMAIN activeContainers[MapIndex(activeContainers, u)].arr}
    ELSE {}

AllTracked == UNION {Tracked(u) : u \in Users}

Live(u) == {c \in ContainerIds : docker[c] = "running" /\ owner[c] = u}

(***************************************************************************)
(* Call frames                                                             *)
(***************************************************************************)
IdleFrame ==
    [op |-> "idle", pc |-> "idle", user |-> 0, subject |-> "", arr |-> 0,
     idx |-> 0, cur |-> 0, cid |-> 0, it |-> 0, out |-> "none", stale |-> FALSE,
     tried |-> {}]

Free(p) == prov[p].pc = "idle"

\* callers are interchangeable: a new call takes p1 when p1 is free
MayStart(p) == Free(p) /\ (p = "p1" \/ ~Free("p1"))

\* the call has settled: out is "returned", "unsupported" (the thrown
\* `No Docker image defined ...`) or "threw" (any other rejection)
Settled(o) == [IdleFrame EXCEPT !.out = o]

\* entries that are live or whose array a running loop still iterates
Kept(m, fr) == {i \in DOMAIN m : m[i].live \/ \E p \in Procs : fr[p].arr = i}

Rank(m, fr, i) == Cardinality({k \in Kept(m, fr) : k <= i})

GcMap(m, fr) ==
    [n \in 1..Cardinality(Kept(m, fr)) |->
        m[CHOOSE i \in Kept(m, fr) : Rank(m, fr, i) = n]]

GcProv(m, fr) ==
    [p \in Procs |-> [fr[p] EXCEPT !.arr = Rank(m, fr, fr[p].arr),
                                   !.it  = Rank(m, fr, fr[p].it)]]

\* the Map and the frames after a step
Commit(m, fr) ==
    /\ activeContainers' = GcMap(m, fr)
    /\ prov' = GcProv(m, fr)

\* container.stop(): resolves for a running container (AutoRemove then removes
\* it) or rejects; rejects for one that is not running
StopOutcomes(c) == IF docker[c] = "running" THEN {"ok", "err"} ELSE {"err"}

DockerAfterStop(c, o) == IF o = "ok" THEN [docker EXCEPT ![c] = "gone"] ELSE docker

\* cleanupUserContainers(u), from its call to its first await or its return:
\* the frame and the Map after it
CleanupEnter(f, u, m) ==
    LET a == MapIndex(m, u) IN
    IF a # 0 /\ Len(m[a].arr) >= 1
    THEN [frame |-> [f EXCEPT !.pc = "cu_stop", !.user = u, !.arr = a, !.idx = 1,
                              !.cur = m[a].arr[1]],
          map   |-> m]
    ELSE [frame |-> [f EXCEPT !.pc = "cu_ret", !.user = u, !.arr = 0, !.idx = 0,
                              !.cur = 0],
          map   |-> MapDelete(m, u)]

\* the loop of cleanupUserContainers after one `await container.stop()`
CleanupAdvance(f, m) ==
    IF f.idx + 1 <= Len(m[f.arr].arr)
    THEN [frame |-> [f EXCEPT !.idx = f.idx + 1, !.cur = m[f.arr].arr[f.idx + 1]],
          map   |-> m]
    ELSE [frame |-> [f EXCEPT !.pc = "cu_ret", !.arr = 0, !.idx = 0, !.cur = 0],
          map   |-> MapDelete(m, f.user)]

(***************************************************************************)
(* spinUpContainer                                                         *)
(***************************************************************************)
SpinUpContainer(p, u, s) ==
    /\ MayStart(p)
    /\ LET r == CleanupEnter([IdleFrame EXCEPT !.op = "spinUp", !.subject = s],
                             u, activeContainers) IN
         Commit(r.map, [prov EXCEPT ![p] = r.frame])
    /\ UNCHANGED <<docker, owner>>
    /\ UNCHANGED <<capVars, clientVars>>

\* one `await container.stop()` of the loop of cleanupUserContainers settles
CleanupStopDone(p) ==
    /\ prov[p].pc = "cu_stop"
    /\ \E o \in StopOutcomes(prov[p].cur) :
         /\ docker' = DockerAfterStop(prov[p].cur, o)
         /\ LET f == IF prov[p].op = "cleanupAll"
                     THEN [prov[p] EXCEPT !.tried = @ \cup {prov[p].cur}]
                     ELSE prov[p]
                r == CleanupAdvance(f, activeContainers) IN
              Commit(r.map, [prov EXCEPT ![p] = r.frame])
    /\ UNCHANGED owner
    /\ UNCHANGED <<capVars, clientVars>>

\* `await cleanupUserContainers(userId)` of spinUpContainer resumes; getPort is awaited
SpinUpAfterCleanup(p) ==
    /\ prov[p].pc = "cu_ret" /\ prov[p].op = "spinUp"
    /\ prov' = [prov EXCEPT ![p].pc = "getPort"]
    /\ UNCHANGED <<activeContainers, docker, owner>>
    /\ UNCHANGED <<capVars, clientVars>>

\* getPort resolved: the image lookup, then docker.createContainer is awaited
GetPortDone(p) ==
    /\ prov[p].pc = "getPort"
    /\ prov' = [prov EXCEPT ![p] =
                  IF subjectToImage(prov[p].subject) = "undefined"
                  THEN Settled("unsupported")
                  ELSE [prov[p] EXCEPT !.pc = "create"]]
    /\ UNCHANGED <<activeContainers, docker, owner>>
    /\ UNCHANGED <<capVars, clientVars>>

FreshContainers == {c \in ContainerIds : docker[c] = "none"}

CreateContainerDone(p) ==
    /\ prov[p].pc = "create"
    /\ \/ /\ FreshContainers # {}
          /\ subjectToImage(prov[p].subject) \notin {"undefined", "function"}
          /\ LET c == CHOOSE x \in FreshContainers : \A y \in FreshContainers : x <= y IN
               /\ docker' = [docker EXCEPT ![c] = "created"]
               /\ owner' = [owner EXCEPT ![c] = prov[p].user]
               /\ prov' = [prov EXCEPT ![p].pc = "start", ![p].cid = c,
                                        ![p].subject = ""]
       \/ /\ prov' = [prov EXCEPT ![p] = Settled("threw")]
          /\ UNCHANGED <<docker, owner>>
    /\ UNCHANGED activeContainers
    /\ UNCHANGED <<capVars, clientVars>>

StartDone(p) ==
    /\ prov[p].pc = "start"
    /\ \/ /\ docker' = [docker EXCEPT ![prov[p].cid] = "running"]
          /\ prov' = [prov EXCEPT ![p].pc = "inspect"]
       \/ /\ prov' = [prov EXCEPT ![p] = Settled("threw")]
          /\ UNCHANGED docker
    /\ UNCHANGED <<activeContainers, owner>>
    /\ UNCHANGED <<capVars, clientVars>>

\* the Map after `if (!has(userId)) set(userId, [])` and `get(userId)!.push(c)`
Track(m, u, c) ==
    IF MapHas(m, u)
    THEN [m EXCEPT ![MapIndex(m, u)].arr = Append(@, c)]
    ELSE Append(m, [key |-> u, arr |-> <<c>>, live |-> TRUE])

\* container.inspect() settled: the port check, the tracking, then logs is awaited
InspectDone(p) ==
    /\ prov[p].pc = "inspect"
    /\ \/ /\ activeContainers' = Track(activeContainers, prov[p].user, prov[p].cid)
          /\ prov' = [prov EXCEPT ![p].pc = "logs"]
       \/ /\ prov' = [prov EXCEPT ![p] = Settled("threw")]
          /\ UNCHANGED activeContainers
    /\ UNCHANGED <<docker, owner>>
    /\ UNCHANGED <<capVars, clientVars>>

LogsDone(p) ==
    /\ prov[p].pc = "logs"
    /\ \E o \in {"returned", "threw"} : prov' = [prov EXCEPT ![p] = Settled(o)]
    /\ UNCHANGED <<activeContainers, docker, owner>>
    /\ UNCHANGED <<capVars, clientVars>>

(***************************************************************************)
(* stopContainer                                                           *)
(***************************************************************************)
StopContainer(p, c) ==
    /\ MayStart(p)
    /\ prov' = [prov EXCEPT ![p] = [IdleFrame EXCEPT !.op = "stop", !.pc = "sc_stop",
                                                     !.cur = c]]
    /\ UNCHANGED <<activeContainers, docker, owner>>
    /\ UNCHANGED <<capVars, clientVars>>

\* the first entry, in Map order, whose array holds c; 0 when none does
HolderOf(m, c) ==
    IF \E i \in DOMAIN m : m[i].live /\ IndexOf(m[i].arr, c) > 0
    THEN CHOOSE i \in DOMAIN m :
           /\ m[i].live /\ IndexOf(m[i].arr, c) > 0
           /\ \A k \in DOMAIN m : (m[k].live /\ IndexOf(m[k].arr, c) > 0) => i <= k
    ELSE 0

\* the "Remove from tracking" loop
Untrack(m, c) ==
    LET h == HolderOf(m, c) IN
    IF h = 0 THEN m
    ELSE LET spliced == [m EXCEPT ![h].arr = Splice(@, IndexOf(@, c))] IN
         IF Len(spliced[h].arr) = 0 THEN MapDelete(spliced, m[h].key) ELSE spliced

\* a stopContainer without its try/catch
C12_StopRethrows(o) == IF o = "ok" THEN "returned" ELSE "threw"

\* how stopContainer settles after container.stop() resolved or rejected:
\* the catch block logs the rejection
StopSettles(o) == "returned"

\* `await container.stop()` of stopContainer settles; stale records that the
\* container had already been stopped
StopContainerDone(p) ==
    /\ prov[p].pc = "sc_stop"
    /\ \E o \in StopOutcomes(prov[p].cur) :
         /\ docker' = DockerAfterStop(prov[p].cur, o)
         /\ Commit(IF o = "ok" THEN Untrack(activeContainers, prov[p].cur)
                               ELSE activeContainers,
                   [prov EXCEPT ![p] =
                      [Settled(StopSettles(o)) EXCEPT
                          !.stale = docker[prov[p].cur] = "gone"]])
    /\ UNCHANGED owner
    /\ UNCHANGED <<capVars, clientVars>>

(***************************************************************************)
(* cleanupAllContainers                                                    *)
(***************************************************************************)
\* the loop over activeContainers.entries() from position it on, up to the
\* next await or to the clear() and the return
CleanupAllStep(f, it, m) ==
    LET j == MapNext(m, it) IN
    IF j # 0
    THEN CleanupEnter([f EXCEPT !.it = j], m[j].key, m)
    ELSE [frame |-> Settled("returned"), map |-> MapClear(m)]

CleanupAllContainers(p) ==
    /\ MayStart(p)
    /\ LET r == CleanupAllStep([IdleFrame EXCEPT !.op = "cleanupAll"], 0,
                               activeContainers) IN
         Commit(r.map, [prov EXCEPT ![p] = r.frame])
    /\ UNCHANGED <<docker, owner>>
    /\ UNCHANGED <<capVars, clientVars>>

CleanupAllAfterCleanup(p) ==
    /\ prov[p].pc = "cu_ret" /\ prov[p].op = "cleanupAll"
    /\ LET r == CleanupAllStep(prov[p], prov[p].it, activeContainers) IN
         Commit(r.map, [prov EXCEPT ![p] = r.frame])
    /\ UNCHANGED <<docker, owner>>
    /\ UNCHANGED <<capVars, clientVars>>

\* the code-server process of a running container exits; AutoRemove then
\* removes the container
ContainerExits(c) ==
    /\ docker[c] = "running"
    /\ docker' = [docker EXCEPT ![c] = "gone"]
    /\ UNCHANGED <<activeContainers, owner, prov>>
    /\ UNCHANGED <<capVars, clientVars>>

NextProv ==
    \/ \E p \in Procs, u \in Users, s \in SubjectInputs : SpinUpContainer(p, u, s)
    \/ \E p \in Procs : CleanupStopDone(p)
    \/ \E p \in Procs : SpinUpAfterCleanup(p)
    \/ \E p \in Procs : GetPortDone(p)
    \/ \E p \in Procs : CreateContainerDone(p)
    \/ \E p \in Procs : StartDone(p)
    \/ \E p \in Procs : InspectDone(p)
    \/ \E p \in Procs : LogsDone(p)
    \/ \E p \in Procs, c \in ContainerIds : StopContainer(p, c)
    \/ \E p \in Procs : StopContainerDone(p)
    \/ \E p \in Procs : CleanupAllContainers(p)
    \/ \E p \in Procs : CleanupAllAfterCleanup(p)
    \/ \E c \in ContainerIds : ContainerExits(c)


(***************************************************************************)
(* Capture: the image values, the staging files, the store                 *)
(***************************************************************************)
MaxRequests == 2

Tasks == {"t1", "t2"}

TestUser == 999

\* req.body.image / screenshotData.image: a JavaScript value
Undefined == [t |-> "undefined", s |-> <<>>]
Number == [t |-> "number", s |-> <<>>]
Str(chars) == [t |-> "string", s |-> chars]

\* 'data:image/'
DataUriPrefix == <<"d", "a", "t", "a", ":", "i", "m", "a", "g", "e", "/">>

\* imageBuffer.toString('base64'): the text that encodes the bytes
Base64Encode(bytes) == ToString(bytes)

\* Buffer.from(text, 'base64'): the bytes the text encodes; a text that no
\* staging file encodes decodes to bytes of its own
Base64Decode(text) ==
    IF \E b \in 0..(MaxRequests + 1) : Base64Encode(b) = text
    THEN CHOOSE b \in 0..(MaxRequests + 1) : Base64Encode(b) = text
    ELSE <<text>>

\* `data:image/jpeg;base64,${imageBuffer.toString('base64')}`
JpegDataUri(bytes) ==
    Str(DataUriPrefix \o <<"j", "p", "e", "g", ";base64,", Base64Encode(bytes)>>)

\* the images a client posts to /api/log/screenshot
ImageInputs ==
    { Undefined,
      Number,
      Str(<<>>),
      Str(<<"i", "V", "B", "O", "R">>),
      Str(<<"d", "a", "t", "a", ":", "i", "m", "a", "g", "e">>),
      Str(<<"d", "a", "t", "a", ":", "t", "e", "x", "t", "/", "p">>),
      Str(DataUriPrefix),
      Str(DataUriPrefix \o <<"p", "n", "g", ";base64,", "iVBOR">>) }

\* !v is false
Truthy(v) == CASE v.t = "undefined" -> FALSE
               [] v.t = "string"    -> Len(v.s) > 0
               [] OTHER             -> TRUE

\* s.startsWith(pre)
StartsWith(s, pre) == Len(s) >= Len(pre) /\ SubSeq(s, 1, Len(pre)) = pre

\* a saveScreenshot without its startsWith('data:image/') check
C4_SaveAcceptsAnyString(v) == Truthy(v) /\ v.t = "string"

\* the two validations at the head of saveScreenshot pass
SaveAccepts(v) == Truthy(v) /\ v.t = "string" /\ StartsWith(v.s, DataUriPrefix)

\* the two validations at the head of POST /api/log/screenshot pass
RouteAccepts(v) == Truthy(v) /\ v.t = "string" /\ StartsWith(v.s, DataUriPrefix)

NoPath == [kind |-> "none", user |-> 0, subject |-> "", event |-> "", ts |-> 0]

\* `user-${userId}-${subject}-${captureEvent}-${timestamp}.jpg` and its
\* desktop- counterpart, under screenshots/
FilePath(kind, u, subj, event, ts) ==
    [kind |-> kind, user |-> u, subject |-> subj, event |-> event, ts |-> ts]

FileExists(p) == p \in DOMAIN files

WriteFile(p, bytes) == [q \in DOMAIN files \cup {p} |-> IF q = p THEN bytes ELSE files[q]]

Unlink(p) == [q \in DOMAIN files \ {p} |-> files[q]]

(***************************************************************************)
(* The page of the editor and the content detection of captureScreenshot  *)
(***************************************************************************)
\* text.includes(pattern)
Includes(text, pattern) ==
    \E i \in 1..(Len(text) - Len(pattern) + 1) :
      SubSeq(text, i, i + Len(pattern) - 1) = pattern

\* text.trim()
Trim(text) ==
    LET inked == {i \in DOMAIN text : text[i] # " "} IN
    IF inked = {} THEN <<>>
    ELSE SubSeq(text, CHOOSE i \in inked : \A k \in inked : i <= k,
                      CHOOSE i \in inked : \A k \in inked : k <= i)

\* the texts whose presence makes a view-lines node a placeholder
PlaceholderTexts ==
    {<<"G", "e", "t", " ", "S", "t", "a", "r", "t", "e", "d">>,
     <<"W", "e", "l", "c", "o", "m", "e">>,
     <<"C", "h", "o", "o", "s", "e", " ", "a", " ", "l", "a", "n", "g", "u", "a", "g", "e">>}

\* `function isPrime(num)`
IsPrimeText == <<"f", "u", "n", "c", "t", "i", "o", "n", " ", "i", "s", "P", "r", "i", "m", "e", "(", "n", "u", "m", ")">>

\* the label of a tab with a file
FileTab == <<"i", "n", "d", "e", "x", ".", "j", "s">>

\* the label of the Welcome tab
WelcomeTab == <<"W", "e", "l", "c", "o", "m", "e">>

\* a page: the textContent of its `.monaco-editor .view-lines` nodes in
\* document order, of its `.tab .label-name` nodes and of its
\* `.terminal .xterm-screen` nodes, and whether it has a .monaco-workbench,
\* an .explorer-viewlet and an .activitybar
Page(viewLines, tabs, terminals, workbench, explorer, activitybar) ==
    [viewLines |-> viewLines, tabs |-> tabs, terminals |-> terminals,
     workbench |-> workbench, explorer |-> explorer, activitybar |-> activitybar]

\* a frame that holds no page
NoPage == Page(<<>>, {}, {}, FALSE, FALSE, FALSE)

\* the page of a codespace with a file open in the editor
EditorPage == Page(<<IsPrimeText>>, {FileTab}, {}, TRUE, TRUE, TRUE)

\* the pages a capture is asked to take
Pages ==
    {Page(v, tb, tm, w, w /\ e, w /\ a) :
       v \in {<<>>, <<IsPrimeText>>,
              <<<<"W", "e", "l", "c", "o", "m", "e", " ", "G", "e", "t", " ", "S", "t", "a", "r", "t", "e", "d">>>>,
              <<<<"x", " ", "=", " ", "1", ";">>>>},
       tb \in {{WelcomeTab}, {WelcomeTab, FileTab}},
       tm \in {{}, {<<"c", "o", "d", "e", "r", "@", "b", "o", "x", ":", "~", "$", " ">>}},
       w \in BOOLEAN, e \in BOOLEAN, a \in BOOLEAN}

\* the test of the loop over the view-lines nodes
IsMonacoCode(text) ==
    /\ Len(Trim(text)) > 10
    /\ \A p \in PlaceholderTexts : ~Includes(Trim(text), p)
    /\ \E c \in {<<"f", "u", "n", "c", "t", "i", "o", "n">>,
           <<"c", "o", "n", "s", "o", "l", "e", ".", "l", "o", "g">>,
           <<"p", "r", "i", "n", "t", "(">>,
           <<"p", "u", "b", "l", "i", "c", " ", "c", "l", "a", "s", "s">>,
           <<"#", "i", "n", "c", "l", "u", "d", "e">>,
           <<"d", "e", "f", " ">>,
           <<"=">>,
           <<"{">>,
           <<";">>} :
         Includes(Trim(text), c)

\* the value of the function that frameContext.evaluate runs in the page
HasContent(page) ==
    IF \E i \in DOMAIN page.viewLines : IsMonacoCode(page.viewLines[i])
    THEN [found |-> TRUE, type |-> "monaco-code"]
    ELSE IF /\ \E tab \in page.tabs :
              \E e \in {<<".", "j", "s">>,
                <<".", "p", "y">>,
                <<".", "j", "a", "v", "a">>,
                <<".", "c", "p", "p">>,
                <<".", "h", "t", "m", "l">>,
                <<".", "c", "s", "s">>,
                <<".", "j", "s", "o", "n">>,
                <<".", "m", "d">>} :
                /\ Len(e) <= Len(tab)
                /\ SubSeq(tab, Len(tab) - Len(e) + 1, Len(tab)) = e
            /\ page.viewLines # <<>>
            /\ Len(page.viewLines[1]) > 0
            /\ Len(Trim(page.viewLines[1])) > 5
    THEN [found |-> TRUE, type |-> "code-file"]
    ELSE IF \E tm \in page.terminals : Len(Trim(tm)) > 10
    THEN [found |-> TRUE, type |-> "terminal"]
    ELSE IF page.workbench /\ (page.explorer \/ page.activitybar)
    THEN [found |-> TRUE, type |-> "workspace"]
    ELSE [found |-> FALSE, type |-> "none"]

(***************************************************************************)
(* Capture task frames                                                     *)
(***************************************************************************)
\* res.status(code).json({success, ...}); no response yet is code 0
Resp(code, success) == [code |-> code, success |-> success]

NoResp == Resp(0, FALSE)

IdleTask ==
    [route |-> "none", pc |-> "idle", id |-> 0, user |-> 0, subject |-> "",
     event |-> "", kind |-> "none", file |-> NoPath, res |-> "none", err |-> "",
     resp |-> NoResp, softFails |-> {}, threw |-> FALSE, attempts |-> 0,
     clicks |-> 0, rounds |-> 0, grant |-> "", image |-> Undefined,
     served |-> [req |-> 0, bytes |-> <<>>, name |-> NoPath], bulk |-> <<>>,
     page |-> NoPage, hasContent |-> [found |-> FALSE, type |-> "unknown"],
     session |-> "none"]

TaskFree(t) == cap[t].pc \in {"idle", "done"}

\* a request can be received: requests are interchangeable, t1 takes it when free
MayBegin(t) ==
    /\ TaskFree(t)
    /\ started < MaxRequests
    /\ t = "t1" \/ ~TaskFree("t1")

NewTask(route, u, subj, event, kind) ==
    [IdleTask EXCEPT !.route = route, !.id = started + 1, !.user = u,
                     !.subject = subj, !.event = event, !.kind = kind]

\* the steps of captureScreenshot in source order, each ending at an await
EditorOrder ==
    <<"initBrowser", "newPage", "viewport", "goto", "listButtons", "trust", "auth",
      "workspace", "content", "mkdir", "screenshot", "pageClose", "captured">>

StepAfter(step) ==
    EditorOrder[(CHOOSE i \in DOMAIN EditorOrder : EditorOrder[i] = step) + 1]

\* what the try blocks of captureScreenshot do with an exception of a step:
\* the inner try/catch blocks log and go on, the outer one returns
\* {success: false, error}
CaptureGuard(step) ==
    CASE step \in {"trust", "auth", "workspace", "content", "pageClose"} -> "continue"
      [] step \in {"initBrowser", "newPage", "viewport", "goto", "listButtons",
                   "mkdir", "screenshot"} -> "return"
      [] OTHER -> "propagate"

\* what the try blocks of captureDesktopScreen do with an exception of a step
DesktopGuard(step) ==
    CASE step \in {"click", "close"} -> "continue"
      [] step \in {"launch", "evaluate", "captureError", "timeout", "write"} -> "return"
      [] OTHER -> "propagate"

\* save wrappers whose readFileSync sits outside the try block
C9_SaveGuardWithoutCatch(step) ==
    CASE step = "unlink" -> "continue"
      [] step = "save"   -> "return"
      [] OTHER           -> "propagate"

\* what the try blocks of captureAndSaveToMongoDB and of
\* captureDesktopAndSaveToMongoDB do with an exception of a step
SaveGuard(step) ==
    CASE step = "unlink" -> "continue"
      [] step \in {"read", "save"} -> "return"
      [] OTHER -> "propagate"

\* the frame after a step of the capture function threw; after is the await
\* the catch and finally blocks lead to, next the one after the step
Thrown(f, guard, step, next, after) ==
    CASE guard = "continue" ->
            [f EXCEPT !.pc = next, !.softFails = @ \cup {step}]
      [] guard = "return" ->
            [f EXCEPT !.pc = after, !.res = "fail", !.err = step]
      [] OTHER ->
            [f EXCEPT !.pc = "returned", !.res = "fail", !.err = step, !.threw = TRUE]

\* captureScreenshot from its call to `await this.initBrowser()`; page is what
\* containerUrl serves
BeginCapture(f) == [f EXCEPT !.pc = "initBrowser", !.page = EditorPage]

\* captureDesktopScreen from its call to its first await
BeginDesktop(f, g) == [f EXCEPT !.pc = "d_launch", !.grant = g]

\* the null of the codespaceUrl state of StudentDashboard
NoUrl == 0

Init ==
    /\ activeContainers = <<>>
    /\ docker = [c \in ContainerIds |-> "none"]
    /\ owner = [c \in ContainerIds |-> 0]
    /\ prov = [p \in Procs |-> IdleFrame]
    /\ cap = [t \in Tasks |-> IdleTask]
    /\ files = <<>>
    /\ store = <<>>
    /\ logs = <<>>
    /\ submissions = <<>>
    /\ now = 0
    /\ started = 0
    /\ codespaceUrl = NoUrl
    /\ subject = "JavaScript"
    /\ interval = 0
    /\ timers = {}
    /\ inflight = {}
    /\ sent = 0
    /\ launch = [pc |-> "idle", url |-> NoUrl, elapsed |-> 0, settled |-> FALSE,
                 ready |-> FALSE, isLoading |-> FALSE, toast |-> "none",
                 answered |-> FALSE, n |-> 0, listening |-> {}]
    /\ svc = [browser |-> 0, systemScreenSize |-> "null", live |-> {}, launched |-> 0,
              detections |-> 0, returned |-> {}, inits |-> 0,
              call |-> [k \in {"k1", "k2"} |-> [pc |-> "idle", out |-> 0]],
              cleanup |-> [h \in {"signal", "rejection"} |-> "idle"],
              sig |-> FALSE, entry |-> "off", exited |-> FALSE]

(***************************************************************************)
(* PuppeteerScreenshotService.captureScreenshot                            *)
(***************************************************************************)
\* the awaited call of a step settles: it resolves, or it rejects and the
\* enclosing try block decides; after is where catch and finally lead
EditorStep(t, step, after) ==
    /\ cap[t].pc = step
    /\ \E ok \in BOOLEAN :
         cap' = [cap EXCEPT ![t] =
                   IF ok THEN [cap[t] EXCEPT !.pc = StepAfter(step)]
                   ELSE Thrown(cap[t], CaptureGuard(step), step, StepAfter(step), after)]
    /\ UNCHANGED <<files, store, logs, submissions, now, started>>
    /\ UNCHANGED <<provVars, clientVars>>

\* `await this.initBrowser()`
InitBrowserDone(t) == EditorStep(t, "initBrowser", "captured")

\* getSystemScreenSize, browser.newPage: page is still null when they throw
NewPageDone(t) == EditorStep(t, "newPage", "captured")

\* page.setViewport, page.setUserAgent
ViewportDone(t) == EditorStep(t, "viewport", "pageClose")

\* page.goto(containerUrl, {waitUntil: 'networkidle2', timeout: 45000})
GotoDone(t) == EditorStep(t, "goto", "pageClose")

\* page.$$eval('button', ...), the listing of the visible buttons
ListButtonsDone(t) == EditorStep(t, "listButtons", "pageClose")

\* the workspace-trust block: waitForSelector('button'), the search, the click
TrustDone(t) == EditorStep(t, "trust", "pageClose")

\* the code-server login block
AuthDone(t) == EditorStep(t, "auth", "pageClose")

\* the workspace setup block
WorkspaceDone(t) == EditorStep(t, "workspace", "pageClose")

\* the content detection block
ContentDone(t) ==
    /\ cap[t].pc = "content"
    /\ \/ /\ cap[t].page.viewLines # <<>> \/ cap[t].page.workbench
          /\ cap' = [cap EXCEPT ![t] =
                       [cap[t] EXCEPT !.pc = StepAfter("content"), !.page = NoPage,
                                      !.hasContent = HasContent(cap[t].page)]]
       \/ cap' = [cap EXCEPT ![t] =
                    Thrown([cap[t] EXCEPT !.page = NoPage], CaptureGuard("content"),
                           "content", StepAfter("content"), "pageClose")]
    /\ UNCHANGED <<files, store, logs, submissions, now, started>>
    /\ UNCHANGED <<provVars, clientVars>>

\* the milliseconds `new Date()` can give for a filename: a later one than
\* the last reading, or the same one while the capture that read it is still
\* awaiting its page.screenshot
Timestamps ==
    {now + 1} \cup {ts \in {now} : \E t \in Tasks : /\ cap[t].pc = "screenshot"
                                                   /\ cap[t].file.ts = ts}

\* synchronous tail of the content block: mkdirSync, the filename from the
\* clock, and page.screenshot is awaited
StageDone(t) ==
    /\ cap[t].pc = "mkdir"
    /\ \/ \E ts \in Timestamps :
            /\ now' = ts
            /\ cap' = [cap EXCEPT ![t] =
                         [cap[t] EXCEPT !.pc = "screenshot",
                                        !.file = FilePath("user", cap[t].user,
                                                          cap[t].subject, cap[t].event, ts)]]
       \/ /\ cap' = [cap EXCEPT ![t] =
                       Thrown(cap[t], CaptureGuard("mkdir"), "mkdir", "screenshot", "pageClose")]
          /\ UNCHANGED now
    /\ UNCHANGED <<files, store, logs, submissions, started>>
    /\ UNCHANGED <<provVars, clientVars>>

\* page.screenshot({path: filePath, ...}) settles, then statSync and the result
ScreenshotDone(t) ==
    /\ cap[t].pc = "screenshot"
    /\ \/ /\ files' = WriteFile(cap[t].file, cap[t].id)
          /\ cap' = [cap EXCEPT ![t] = [cap[t] EXCEPT !.pc = "pageClose", !.res = "ok"]]
       \/ /\ cap' = [cap EXCEPT ![t] =
                       Thrown(cap[t], CaptureGuard("screenshot"), "screenshot",
                              "pageClose", "pageClose")]
          /\ UNCHANGED files
    /\ UNCHANGED <<store, logs, submissions, now, started>>
    /\ UNCHANGED <<provVars, clientVars>>

\* finally: `await page.close()` inside its own try
PageCloseDone(t) == EditorStep(t, "pageClose", "captured")

(***************************************************************************)
(* PuppeteerScreenshotService.captureDesktopScreen                         *)
(***************************************************************************)
DesktopAttempts == 8

ClickFromAttempt == 5

\* what getDisplayMedia does in the capture page
GrantModes == {"never", "granted", "denied"}

\* what one page.evaluate of the polling loop can find
PollOutcomes(g) ==
    {"none", "throw"} \cup (IF g = "granted" THEN {"image"} ELSE {})
                      \cup (IF g = "denied" THEN {"error"} ELSE {})

\* a polling loop that runs while (attempts >= 0 && !imageData)
C8_PollContinuesOneMore(attempts, hasImage) == attempts >= 0 /\ ~hasImage

\* while (attempts > 0 && !imageData)
PollContinues(attempts, hasImage) == attempts > 0 /\ ~hasImage

\* getSystemScreenSize, puppeteer.launch, newPage, setViewport, setContent;
\* session is the browser of this capture: "open" once launched
DesktopLaunchDone(t) ==
    /\ cap[t].pc = "d_launch"
    /\ \E ok \in BOOLEAN :
         cap' = [cap EXCEPT ![t] =
                   IF ok /\ PollContinues(DesktopAttempts, FALSE)
                   THEN [cap[t] EXCEPT !.pc = "d_poll", !.attempts = DesktopAttempts,
                                       !.session = "open"]
                   ELSE Thrown(cap[t], DesktopGuard("launch"), "launch", "d_poll", "d_close")]
    /\ UNCHANGED <<files, store, logs, submissions, now, started>>
    /\ UNCHANGED <<provVars, clientVars>>

\* the frame after a round that found neither image nor error
AfterEmptyRound(f) ==
    LET g == [f EXCEPT !.attempts = f.attempts - 1,
                       !.rounds = f.rounds + 1,
                       !.clicks = IF f.attempts <= ClickFromAttempt THEN f.clicks + 1
                                  ELSE f.clicks] IN
    IF PollContinues(g.attempts, FALSE) THEN g
    ELSE Thrown(g, DesktopGuard("timeout"), "timeout", "d_poll", "d_close")

\* one round of the polling loop; on an image, the file is written
DesktopPollRound(t) ==
    /\ cap[t].pc = "d_poll"
    /\ \E o \in PollOutcomes(cap[t].grant) :
         \/ /\ o = "none"
            /\ cap' = [cap EXCEPT ![t] = AfterEmptyRound(cap[t])]
            /\ UNCHANGED <<files, now>>
         \/ /\ o = "throw"
            /\ cap' = [cap EXCEPT ![t] =
                         Thrown([cap[t] EXCEPT !.rounds = @ + 1], DesktopGuard("evaluate"),
                                "evaluate", "d_poll", "d_close")]
            /\ UNCHANGED <<files, now>>
         \/ /\ o = "error"
            /\ cap' = [cap EXCEPT ![t] =
                         Thrown([cap[t] EXCEPT !.rounds = @ + 1],
                                DesktopGuard("captureError"), "captureError",
                                "d_poll", "d_close")]
            /\ UNCHANGED <<files, now>>
         \/ /\ o = "image"
            /\ \/ \E ts \in Timestamps :
                    LET path == FilePath("desktop", cap[t].user, cap[t].subject,
                                         cap[t].event, ts) IN
                    /\ now' = ts
                    /\ files' = WriteFile(path, cap[t].id)
                    /\ cap' = [cap EXCEPT ![t] =
                                 [cap[t] EXCEPT !.pc = "d_close", !.res = "ok",
                                                !.file = path, !.rounds = @ + 1]]
               \/ /\ cap' = [cap EXCEPT ![t] =
                               Thrown([cap[t] EXCEPT !.rounds = @ + 1],
                                      DesktopGuard("write"), "write", "d_poll", "d_close")]
                  /\ UNCHANGED <<files, now>>
    /\ UNCHANGED <<store, logs, submissions, started>>
    /\ UNCHANGED <<provVars, clientVars>>

\* finally: `if (page) await page.close(); if (browser) await browser.close()`
\* inside one try with an empty catch: a rejection of either leaves the
\* browser open, and without a browser nothing is awaited
DesktopCloseDone(t) ==
    /\ cap[t].pc = "d_close"
    /\ \E ok \in {TRUE} \cup {b \in {FALSE} : cap[t].session = "open"} :
         cap' = [cap EXCEPT ![t] =
                   IF ok THEN [cap[t] EXCEPT !.pc = "captured",
                                             !.session = IF @ = "open" THEN "closed" ELSE @]
                   ELSE Thrown(cap[t], DesktopGuard("close"), "close", "captured", "captured")]
    /\ UNCHANGED <<files, store, logs, submissions, now, started>>
    /\ UNCHANGED <<provVars, clientVars>>

(***************************************************************************)
(* captureAndSaveToMongoDB, captureDesktopAndSaveToMongoDB, saveScreenshot *)
(***************************************************************************)
\* the document insertOne writes; req names the request it was saved for
Artifact(f) ==
    [req |-> f.id, user |-> f.user, image |-> f.image, file |-> f.file,
     event |-> f.event, kind |-> f.kind]

\* the capture function returned: on success the staging file is read and
\* encoded, and saveScreenshot validates the image and awaits insertOne
CaptureReturned(t) ==
    /\ cap[t].pc = "captured"
    /\ IF cap[t].res = "ok"
       THEN \E io \in BOOLEAN :
              cap' = [cap EXCEPT ![t] =
                        IF ~(io /\ FileExists(cap[t].file))
                        THEN Thrown([cap[t] EXCEPT !.softFails = {}, !.session = "none"], SaveGuard("read"),
                                    "read", "insert", "returned")
                        ELSE LET img == JpegDataUri(files[cap[t].file]) IN
                             IF SaveAccepts(img)
                             THEN [cap[t] EXCEPT !.pc = "insert", !.image = img,
                                                 !.softFails = {}, !.session = "none"]
                             ELSE Thrown([cap[t] EXCEPT !.softFails = {}, !.session = "none"],
                                         SaveGuard("save"), "save", "insert", "returned")]
       ELSE cap' = [cap EXCEPT ![t] = [cap[t] EXCEPT !.pc = "returned", !.softFails = {}, !.session = "none"]]
    /\ UNCHANGED <<files, store, logs, submissions, now, started>>
    /\ UNCHANGED <<provVars, clientVars>>

\* the frame of a request of /api/log/screenshot whose saveScreenshot threw:
\* the catch of the route answers 400
LegacyRejected(f) == [f EXCEPT !.pc = "done", !.res = "fail", !.resp = Resp(400, FALSE)]

\* the frame of a call of saveScreenshot that throws to its caller
SaveRejected(f) == [f EXCEPT !.pc = "done", !.res = "fail", !.err = "save"]

\* saveScreenshot called outside the save wrappers: by the route of
\* /api/log/screenshot, or by any other importer of mongoService
Direct(f) == f.route \in {"legacy", "save"}

DirectRejected(f) == IF f.route = "legacy" THEN LegacyRejected(f) ELSE SaveRejected(f)

\* a wrapper that unlinks the staging file in a finally block
C16_UnlinkInFinally(saved, unlinked, p) ==
    IF unlinked /\ FileExists(p) THEN Unlink(p) ELSE files

\* the staging directory once saveScreenshot settled in a save wrapper:
\* fs.unlinkSync(result.filePath) is the statement after the await, inside
\* the try block
StagingAfterSave(saved, unlinked, p) ==
    IF saved /\ unlinked /\ FileExists(p) THEN Unlink(p) ELSE files

\* `await collection.insertOne(screenshot)` settles
InsertDone(t) ==
    /\ cap[t].pc = "insert"
    /\ \/ /\ store' = Append(store, Artifact(cap[t]))
          /\ cap' = [cap EXCEPT ![t] = [cap[t] EXCEPT !.pc = "findOne"]]
          /\ UNCHANGED files
       \/ /\ cap' = [cap EXCEPT ![t] =
                       IF Direct(cap[t]) THEN DirectRejected(cap[t])
                       ELSE Thrown(cap[t], SaveGuard("save"), "save", "findOne", "returned")]
          /\ files' = IF Direct(cap[t]) THEN files
                      ELSE StagingAfterSave(FALSE, TRUE, cap[t].file)
          /\ UNCHANGED store
    /\ UNCHANGED <<logs, submissions, now, started>>
    /\ UNCHANGED <<provVars, clientVars>>

\* `await collection.findOne({_id})` settles; a null document throws. The
\* wrappers then unlink the staging file, the route of /api/log/screenshot
\* awaits createLog
FindOneDone(t) ==
    /\ cap[t].pc = "findOne"
    /\ \E found \in BOOLEAN, unlinked \in BOOLEAN :
         IF Direct(cap[t])
         THEN /\ cap' = [cap EXCEPT ![t] =
                           IF ~found THEN DirectRejected(cap[t])
                           ELSE [cap[t] EXCEPT !.res = "ok",
                                               !.pc = IF cap[t].route = "legacy"
                                                      THEN "log" ELSE "done"]]
              /\ unlinked
              /\ UNCHANGED files
         ELSE IF found
         THEN /\ cap' = [cap EXCEPT ![t] =
                           IF unlinked /\ FileExists(cap[t].file)
                           THEN [cap[t] EXCEPT !.pc = "returned"]
                           ELSE Thrown(cap[t], SaveGuard("unlink"), "unlink",
                                       "returned", "returned")]
              /\ files' = StagingAfterSave(TRUE, unlinked, cap[t].file)
         ELSE /\ cap' = [cap EXCEPT ![t] =
                           Thrown(cap[t], SaveGuard("save"), "save", "returned", "returned")]
              /\ unlinked
              /\ files' = StagingAfterSave(FALSE, TRUE, cap[t].file)
    /\ UNCHANGED <<store, logs, submissions, now, started>>
    /\ UNCHANGED <<provVars, clientVars>>

(***************************************************************************)
(* The routes                                                              *)
(***************************************************************************)
CaptureRoutes == {"submit", "manual", "desktop", "adminTest", "adminDesktop", "debug"}

\* the routes whose handler calls storage.createLog after a successful capture
LogsOnSuccess(route) ==
    route \in {"submit", "manual", "desktop", "adminTest", "adminDesktop", "legacy"}

\* handlers that all answer with the outcome of the capture
C7_RespondAfterSurfacesFailure(f) ==
    IF f.res = "ok" THEN Resp(200, TRUE) ELSE Resp(500, FALSE)

\* the response of the handler once the capture settled, without a log entry
RespondAfter(f) ==
    CASE f.route = "submit" -> f.resp
      [] f.route = "debug"  -> IF f.threw THEN Resp(500, FALSE)
                               ELSE Resp(200, f.res = "ok")
      [] OTHER              -> IF f.res = "ok" THEN Resp(200, TRUE) ELSE Resp(500, FALSE)

\* a handler that logs whatever the capture returned
C24_LogWithoutResultCheck(f) == TRUE

\* `if (result.success)` of the handlers, for the result the save wrapper
\* returned
CaptureSaved(f) == f.res = "ok" /\ ~f.threw

\* the save wrapper settled and the handler goes on: it awaits createLog, or
\* it responds
RouteResumes(t) ==
    /\ cap[t].pc = "returned"
    /\ cap[t].route # "bulk"
    /\ cap' = [cap EXCEPT ![t] =
                 IF CaptureSaved(cap[t]) /\ LogsOnSuccess(cap[t].route)
                 THEN [cap[t] EXCEPT !.pc = "log"]
                 ELSE [cap[t] EXCEPT !.pc = "done", !.resp = RespondAfter(cap[t])]]
    /\ UNCHANGED <<files, store, logs, submissions, now, started>>
    /\ UNCHANGED <<provVars, clientVars>>

\* the entry storage.createLog writes
LogEntry(f) == [req |-> f.id, user |-> f.user, type |-> "screenshot"]

\* what createLog can do: insert and return, reject, or insert and then reject
LogOutcomes == {"ok", "fail", "insertedThenFailed"}

\* `await storage.createLog(log)` settles and the handler responds
LogDone(t) ==
    /\ cap[t].pc = "log"
    /\ \E o \in LogOutcomes :
         /\ logs' = IF o = "fail" THEN logs ELSE Append(logs, LogEntry(cap[t]))
         /\ cap' = [cap EXCEPT ![t] =
                      [cap[t] EXCEPT !.pc = "done",
                                     !.softFails = IF o = "ok" THEN @ ELSE @ \cup {"log"},
                                     !.resp = IF cap[t].route = "legacy"
                                              THEN IF o = "ok" THEN Resp(201, TRUE)
                                                   ELSE Resp(400, FALSE)
                                              ELSE RespondAfter(cap[t])]]
    /\ UNCHANGED <<files, store, submissions, now, started>>
    /\ UNCHANGED <<provVars, clientVars>>

\* a request is taken by task t under the next request number
Receive(t, frame) ==
    /\ MayBegin(t)
    /\ started' = started + 1
    /\ cap' = [cap EXCEPT ![t] = frame]
    /\ UNCHANGED <<files, store, logs, submissions, now>>
    /\ UNCHANGED <<provVars, clientVars>>

\* POST /api/submit: insertSubmissionSchema.parse, then createSubmission is awaited
SubmitCode(t, u) ==
    \E valid \in BOOLEAN :
      Receive(t, IF valid
                 THEN [NewTask("submit", u, "JavaScript", "submission", "user")
                          EXCEPT !.pc = "createSubmission"]
                 ELSE [NewTask("submit", u, "JavaScript", "submission", "user")
                          EXCEPT !.pc = "done", !.resp = Resp(400, FALSE)])

\* a handler of /api/submit that awaits the capture before it responds
C6_SubmitAwaitsCapture(f) == BeginCapture(f)

\* the handler of /api/submit from the call of captureAndSaveToMongoDB to
\* its end: the promise is not awaited and the response is sent
SubmitResponds(f) == [BeginCapture(f) EXCEPT !.resp = Resp(201, TRUE)]

\* `await storage.createSubmission(submission)` settles
CreateSubmissionDone(t) ==
    /\ cap[t].pc = "createSubmission"
    /\ \/ /\ submissions' = Append(submissions, [req |-> cap[t].id, user |-> cap[t].user])
          /\ cap' = [cap EXCEPT ![t] = SubmitResponds(cap[t])]
       \/ /\ cap' = [cap EXCEPT ![t] =
                       [cap[t] EXCEPT !.pc = "done", !.resp = Resp(500, FALSE)]]
          /\ UNCHANGED submissions
    /\ UNCHANGED <<files, store, logs, now, started>>
    /\ UNCHANGED <<provVars, clientVars>>

\* POST /api/capture-screenshot
ManualCapture(t, u) ==
    Receive(t, BeginCapture(NewTask("manual", u, "JavaScript", "manual", "user")))

\* POST /api/capture-desktop
DesktopCapture(t, u) ==
    \E g \in GrantModes :
      Receive(t, BeginDesktop(NewTask("desktop", u, "desktop", "manual", "desktop"), g))

\* POST /api/admin/test-screenshot
AdminTestScreenshot(t) ==
    Receive(t, BeginCapture(NewTask("adminTest", TestUser, "test-screenshot",
                                    "manual", "user")))

\* POST /api/admin/capture-desktop
AdminCaptureDesktop(t, u) ==
    \E g \in GrantModes :
      Receive(t, BeginDesktop(NewTask("adminDesktop", u, "admin-desktop",
                                      "admin-capture", "desktop"), g))

\* POST /api/debug/capture-screenshot
DebugCapture(t, u) ==
    \E complete \in BOOLEAN :
      Receive(t, IF complete
                 THEN BeginCapture(NewTask("debug", u, "debug", "debug-manual", "user"))
                 ELSE [NewTask("debug", u, "debug", "debug-manual", "user")
                          EXCEPT !.pc = "done", !.resp = Resp(400, FALSE)])

\* POST /api/log/screenshot: the route validates the image, then
\* saveScreenshot validates it and awaits insertOne
LogScreenshot(t, u) ==
    \E img \in ImageInputs :
    \E name \in {NoPath} \cup {store[i].file : i \in DOMAIN store} :
      LET f == [NewTask("legacy", u, "", "client", "legacy") EXCEPT !.image = img,
                                                                   !.file = name] IN
      Receive(t, IF ~RouteAccepts(img)
                 THEN [f EXCEPT !.pc = "done", !.res = "fail", !.resp = Resp(400, FALSE)]
                 ELSE IF SaveAccepts(img) THEN [f EXCEPT !.pc = "insert"]
                 ELSE LegacyRejected(f))

\* mongoService.saveScreenshot(screenshotData) with any image: the two
\* validations, then insertOne is awaited
SaveScreenshot(t, u) ==
    \E img \in ImageInputs :
      LET f == [NewTask("save", u, "", "", "none") EXCEPT !.image = img] IN
      Receive(t, IF SaveAccepts(img) THEN [f EXCEPT !.pc = "insert"] ELSE SaveRejected(f))

\* the steps of a capture in flight on task t
CaptureStep(t) ==
    \/ InitBrowserDone(t)
    \/ NewPageDone(t)
    \/ ViewportDone(t)
    \/ GotoDone(t)
    \/ ListButtonsDone(t)
    \/ TrustDone(t)
    \/ AuthDone(t)
    \/ WorkspaceDone(t)
    \/ ContentDone(t)
    \/ StageDone(t)
    \/ ScreenshotDone(t)
    \/ PageCloseDone(t)
    \/ CaptureReturned(t)
    \/ InsertDone(t)
    \/ FindOneDone(t)
    \/ RouteResumes(t)
    \/ LogDone(t)

DesktopStep(t) ==
    \/ DesktopLaunchDone(t)
    \/ DesktopPollRound(t)
    \/ DesktopCloseDone(t)

(***************************************************************************)
(* GET /api/screenshots/:filename                                          *)
(***************************************************************************)
\* a filename with '..', '/' or '\'
TraversalName == [NoPath EXCEPT !.kind = "traversal"]

\* the index of the first document of the set in getAllScreenshots order,
\* which is newest first; 0 for undefined
FirstOf(S) == IF S = {} THEN 0 ELSE CHOOSE i \in S : \A k \in S : k <= i

\* the document the route picks for the filename
TargetScreenshot(docs, name) ==
    LET exact == FirstOf({i \in DOMAIN docs : docs[i].file # NoPath /\ docs[i].file = name})
        sameUser == FirstOf({i \in DOMAIN docs : /\ docs[i].user = name.user
                                                /\ docs[i].kind \in {"user", "desktop"}})
    IN  IF exact # 0 THEN exact
        ELSE IF name.user = 0 THEN 0
        ELSE sameUser

\* imageData.split(',')[1]: the position of the text after the first comma,
\* 0 when the image has no comma
PayloadAt(image) ==
    IF \E k \in DOMAIN image.s : image.s[k] = ";base64,"
    THEN (CHOOSE k \in DOMAIN image.s :
            /\ image.s[k] = ";base64,"
            /\ \A j \in DOMAIN image.s : image.s[j] = ";base64," => k <= j) + 1
    ELSE 0

\* the response of the route from the documents getAllScreenshots returned
\* and the staging directory
ServeScreenshot(docs, name) ==
    LET i == TargetScreenshot(docs, name) IN
    IF i # 0 /\ Truthy(docs[i].image) /\ StartsWith(docs[i].image.s, DataUriPrefix)
    THEN IF PayloadAt(docs[i].image) = 0
         THEN [resp |-> Resp(500, FALSE), served |-> IdleTask.served]
         ELSE [resp |-> Resp(200, TRUE),
               served |-> [req |-> docs[i].req,
                           bytes |-> IF PayloadAt(docs[i].image) > Len(docs[i].image.s)
                                     THEN <<>>
                                     ELSE Base64Decode(docs[i].image.s[PayloadAt(docs[i].image)]),
                           name |-> IF docs[i].file # NoPath THEN docs[i].file ELSE name]]
    ELSE IF FileExists(name)
    THEN [resp |-> Resp(200, TRUE),
          served |-> [req |-> files[name], bytes |-> files[name], name |-> name]]
    ELSE [resp |-> Resp(404, FALSE), served |-> IdleTask.served]

\* the request arrives: the filename check, then getAllScreenshots is awaited
GetScreenshot(t) ==
    \E name \in
        LET known == ({store[i].file : i \in DOMAIN store} \cup DOMAIN files) \ {NoPath} IN
        known \cup {[n EXCEPT !.ts = 0] : n \in known} \cup {TraversalName} :
      LET f == [NewTask("fetch", 0, "", "", "none") EXCEPT !.file = name] IN
      Receive(t, IF name = TraversalName
                 THEN [f EXCEPT !.pc = "done", !.res = "fail", !.resp = Resp(400, FALSE)]
                 ELSE [f EXCEPT !.pc = "getAll"])

\* `await mongoService.getAllScreenshots()` settles and the route responds
GetAllScreenshotsDone(t) ==
    /\ cap[t].pc = "getAll"
    /\ \/ LET r == ServeScreenshot(store, cap[t].file) IN
            cap' = [cap EXCEPT ![t] =
                      [cap[t] EXCEPT !.pc = "done", !.resp = r.resp, !.served = r.served,
                                     !.res = IF r.resp.code = 200 THEN "ok" ELSE "fail"]]
       \/ cap' = [cap EXCEPT ![t] =
                    [cap[t] EXCEPT !.pc = "done", !.res = "fail",
                                   !.resp = Resp(500, FALSE)]]
    /\ UNCHANGED <<files, store, logs, submissions, now, started>>
    /\ UNCHANGED <<provVars, clientVars>>

\* req.user.id of the requests served one after the other
Students == {1}

\* requests served one after the other, over every route
Next ==
    \/ \E u \in Students : SubmitCode("t1", u)
    \/ CreateSubmissionDone("t1")
    \/ \E u \in Students : ManualCapture("t1", u)
    \/ \E u \in Students : DesktopCapture("t1", u)
    \/ AdminTestScreenshot("t1")
    \/ \E u \in Students : AdminCaptureDesktop("t1", u)
    \/ \E u \in Students : DebugCapture("t1", u)
    \/ \E u \in Students : LogScreenshot("t1", u)
    \/ \E u \in Students : SaveScreenshot("t1", u)
    \/ GetScreenshot("t1")
    \/ GetAllScreenshotsDone("t1")
    \/ CaptureStep("t1")
    \/ DesktopStep("t1")

(***************************************************************************)
(* POST /api/admin/capture-all-screenshots                                 *)
(***************************************************************************)
\* `const activeUsers = [1, 2, 3]`
ActiveUsers == <<1, 2, 3>>

\* the call of captureAndSaveToMongoDB for activeUsers[i] of a bulk request
BulkCapture(f, i, settled) ==
    BeginCapture([IdleTask EXCEPT !.route = "bulk", !.id = f.id,
                                  !.user = ActiveUsers[i], !.subject = "admin-capture",
                                  !.event = "admin-bulk", !.kind = "user",
                                  !.bulk = settled])

\* the request arrives and activeUsers.map starts the captures. Their awaits
\* settle in any order; the order followed here is the one in which every
\* await of one capture settles before the first await of the next
AdminCaptureAll(t) ==
    Receive(t, BulkCapture([IdleTask EXCEPT !.id = started + 1], 1, <<>>))

\* a capture of the bulk request settled; after the last one
\* `await Promise.allSettled(capturePromises)` resumes and the route answers
\* {success: true, summary, results}
BulkSettled(t) ==
    /\ cap[t].pc = "returned"
    /\ cap[t].route = "bulk"
    /\ LET rs == Append(cap[t].bulk, IF cap[t].threw THEN "rejected" ELSE cap[t].res) IN
         cap' = [cap EXCEPT ![t] =
                   IF Len(rs) < Len(ActiveUsers)
                   THEN BulkCapture(cap[t], Len(rs) + 1, rs)
                   ELSE [cap[t] EXCEPT !.pc = "done", !.bulk = rs,
                                       !.resp = Resp(200, TRUE)]]
    /\ UNCHANGED <<files, store, logs, submissions, now, started>>
    /\ UNCHANGED <<provVars, clientVars>>

NextBulk ==
    \/ AdminCaptureAll("t1")
    \/ InitBrowserDone("t1")
    \/ NewPageDone("t1")
    \/ ViewportDone("t1")
    \/ GotoDone("t1")
    \/ ListButtonsDone("t1")
    \/ TrustDone("t1")
    \/ AuthDone("t1")
    \/ WorkspaceDone("t1")
    \/ ContentDone("t1")
    \/ StageDone("t1")
    \/ ScreenshotDone("t1")
    \/ PageCloseDone("t1")
    \/ CaptureReturned("t1")
    \/ InsertDone("t1")
    \/ FindOneDone("t1")
    \/ BulkSettled("t1")

\* requests of the bulk capture route
SpecBulk == Init /\ [][NextBulk]_vars

\* POST /api/capture-screenshot for a codespace that shows the given page
CapturePage(t, u, page) ==
    Receive(t, [BeginCapture(NewTask("manual", u, "JavaScript", "manual", "user"))
                  EXCEPT !.page = page])

NextContent ==
    \/ \E u \in Students, page \in Pages : CapturePage("t1", u, page)
    \/ CaptureStep("t1")

\* manual captures of codespaces in every state of their page
SpecContent == Init /\ [][NextContent]_vars

\* interleaved calls of the container manager
SpecProv == Init /\ [][NextProv]_vars

\* requests of the capture routes
Spec == Init /\ [][Next]_vars

\* concurrent requests of /api/capture-screenshot
NextRace ==
    \/ \E t \in Tasks, u \in Users : ManualCapture(t, u)
    \/ \E t \in Tasks : CaptureStep(t)

SpecRace == Init /\ [][NextRace]_vars

(***************************************************************************)
(* StudentDashboard: the periodic capture effect                           *)
(***************************************************************************)
MaxUrls == 2

MaxFetches == 3

Urls == 1..MaxUrls

DashboardSubjects == {"JavaScript", "Python"}

\* setInterval(callback, 30000): the timer, with the codespaceUrl and the
\* subject of the render its callback closes over
SetInterval(ts, id, url, subj) == ts \cup {[id |-> id, url |-> url, subject |-> subj]}

\* an effect cleanup that leaves the interval running
C5_ClearIntervalNoOp(ts, id) == ts

\* clearInterval(interval)
ClearInterval(ts, id) == {tm \in ts : tm.id # id}

\* the id setInterval returns: one no live timer has
FreshTimer(ts) == CHOOSE i \in 1..(Cardinality(ts) + 1) : \A tm \in ts : tm.id # i

\* React commits a render whose codespaceUrl or subject changed: the cleanup
\* of the previous effect runs, then the effect with the new values
CommitEffect(url, subj) ==
    LET cleared == IF interval = 0 THEN timers ELSE ClearInterval(timers, interval) IN
    /\ codespaceUrl' = url
    /\ subject' = subj
    /\ IF url = NoUrl
       THEN /\ interval' = 0
            /\ timers' = cleared
       ELSE /\ interval' = FreshTimer(cleared)
            /\ timers' = SetInterval(cleared, FreshTimer(cleared), url, subj)

\* setCodespaceUrl(data.url) after a launch, setCodespaceUrl(null) after a
\* submission or on Close
SetCodespaceUrl(url) ==
    /\ url # codespaceUrl
    /\ CommitEffect(url, subject)
    /\ UNCHANGED <<inflight, sent, launch>>
    /\ UNCHANGED <<provVars, capVars, svc>>

\* the subject Select: onValueChange={setSubject}
SetSubject(subj) ==
    /\ subj # subject
    /\ CommitEffect(codespaceUrl, subj)
    /\ UNCHANGED <<inflight, sent, launch>>
    /\ UNCHANGED <<provVars, capVars, svc>>

\* a live interval fires: its callback posts /api/capture-screenshot with
\* the values it closed over
IntervalFires(tm) ==
    /\ tm \in timers
    /\ sent < MaxFetches
    /\ sent' = sent + 1
    /\ inflight' = inflight \cup {[n |-> sent + 1, url |-> tm.url, subject |-> tm.subject]}
    /\ UNCHANGED <<codespaceUrl, subject, interval, timers, launch>>
    /\ UNCHANGED <<provVars, capVars, svc>>

\* the fetch of a periodic capture settles: the result or the error is logged
FetchSettles(r) ==
    /\ r \in inflight
    /\ inflight' = inflight \ {r}
    /\ UNCHANGED <<codespaceUrl, subject, interval, timers, sent, launch>>
    /\ UNCHANGED <<provVars, capVars, svc>>

NextClient ==
    \/ \E url \in Urls \cup {NoUrl} : SetCodespaceUrl(url)
    \/ \E subj \in DashboardSubjects : SetSubject(subj)
    \/ \E tm \in timers : IntervalFires(tm)
    \/ \E r \in inflight : FetchSettles(r)

\* the dashboard of one student
SpecClient == Init /\ [][NextClient]_vars

(***************************************************************************)
(* StudentDashboard: handleLaunchCodespace and waitForCodespace            *)
(***************************************************************************)
MaxLaunches == 2

\* `timeout = 15000` of waitForCodespace, in milliseconds
WaitTimeout == 15000

\* setTimeout(tryLoad, 1000)
RetryDelay == 1000

\* the page before a launch; url is data.url, where the undefined of an
\* error body is written NoUrl as both are falsy where the page tests them;
\* listening holds the containers whose code-server accepts requests, and
\* answered records that the probe that resolved was answered by one of them
IdleLaunch ==
    [pc |-> "idle", url |-> NoUrl, elapsed |-> 0, settled |-> FALSE, ready |-> FALSE,
     isLoading |-> FALSE, toast |-> "none", answered |-> FALSE, n |-> 0,
     listening |-> {}]

\* the instance answers HTTP requests
Reachable(c) == c # NoUrl /\ docker[c] = "running" /\ c \in launch.listening

\* the Launch Codespace button, enabled while isLoading is false:
\* setIsLoading(true), then the fetch of /api/container/spin-up is awaited
HandleLaunchCodespace ==
    /\ launch.pc \in {"idle", "done"}
    /\ launch.n < MaxLaunches
    /\ launch' = [IdleLaunch EXCEPT !.pc = "request", !.isLoading = TRUE,
                                    !.n = launch.n + 1,
                                    !.listening = launch.listening]
    /\ UNCHANGED <<codespaceUrl, subject, interval, timers, inflight, sent>>
    /\ UNCHANGED <<provVars, capVars, svc>>

\* the route of /api/container/spin-up takes the request of the student
SpinUpRoute(p, u) ==
    /\ launch.pc = "request"
    /\ prov[p] = IdleFrame
    /\ SpinUpContainer(p, u, subject)

\* the response of the route arrives: `await res.json()`, then
\* waitForCodespace(data.url); a rejected fetch or json() leaves the handler
\* as an unhandled rejection
SpinUpResponds(p, u) ==
    /\ launch.pc = "request"
    /\ prov[p].pc = "idle" /\ prov[p].out # "none"
    /\ \/ LET a == activeContainers[MapIndex(activeContainers, u)].arr IN
            launch' = [launch EXCEPT
                         !.pc = "probe", !.elapsed = 0, !.settled = FALSE,
                         !.url = IF SpinUpStatus(prov[p].out) = 200
                                    /\ MapHas(activeContainers, u)
                                 THEN a[Len(a)] ELSE NoUrl]
       \/ launch' = [launch EXCEPT !.pc = "rejected"]
    /\ prov' = [prov EXCEPT ![p] = IdleFrame]
    /\ UNCHANGED <<activeContainers, docker, owner>>
    /\ UNCHANGED <<codespaceUrl, subject, interval, timers, inflight, sent>>
    /\ UNCHANGED <<capVars, svc>>

\* code-server of a running container starts to accept requests
CodeServerListens(c) ==
    /\ docker[c] = "running"
    /\ c \notin launch.listening
    /\ launch' = [launch EXCEPT !.listening = @ \cup {c}]
    /\ UNCHANGED <<codespaceUrl, subject, interval, timers, inflight, sent>>
    /\ UNCHANGED <<provVars, capVars, svc>>

\* handleLaunchCodespace after `await waitForCodespace(data.url)`:
\* setIsLoading(false), then setCodespaceUrl and the success toast, or the
\* timeout toast
LaunchSettles(l, ready) ==
    /\ launch' = [l EXCEPT !.pc = "done", !.settled = TRUE, !.ready = ready,
                           !.isLoading = FALSE,
                           !.toast = IF ready THEN "launched" ELSE "timeout"]
    /\ IF ready /\ l.url # codespaceUrl
       THEN CommitEffect(l.url, subject)
       ELSE UNCHANGED <<codespaceUrl, subject, interval, timers>>

\* the fetch of tryLoad settles: resolve(true), or setTimeout(tryLoad, 1000)
ProbeSettles ==
    /\ launch.pc = "probe"
    /\ \E d \in {0, RetryDelay} :
         LET l == [launch EXCEPT !.elapsed = @ + d] IN
         IF launch.url = NoUrl \/ Reachable(launch.url)
         THEN LaunchSettles([l EXCEPT !.answered = Reachable(launch.url)], TRUE)
         ELSE /\ launch' = [l EXCEPT !.pc = "timer"]
              /\ UNCHANGED <<codespaceUrl, subject, interval, timers>>
    /\ UNCHANGED <<inflight, sent>>
    /\ UNCHANGED <<provVars, capVars, svc>>

\* the timer calls tryLoad: resolve(false) once Date.now() - start > timeout,
\* else the next fetch is awaited
TryLoad ==
    /\ launch.pc = "timer"
    /\ LET l == [launch EXCEPT !.elapsed = @ + RetryDelay] IN
         IF l.elapsed > WaitTimeout
         THEN LaunchSettles(l, FALSE)
         ELSE /\ launch' = [l EXCEPT !.pc = "probe"]
              /\ UNCHANGED <<codespaceUrl, subject, interval, timers>>
    /\ UNCHANGED <<inflight, sent>>
    /\ UNCHANGED <<provVars, capVars, svc>>

\* the student whose dashboard launches
LaunchUser == 1

NextLaunch ==
    \/ HandleLaunchCodespace
    \/ SpinUpRoute("p1", LaunchUser)
    \/ CleanupStopDone("p1")
    \/ SpinUpAfterCleanup("p1")
    \/ GetPortDone("p1")
    \/ CreateContainerDone("p1")
    \/ StartDone("p1")
    \/ InspectDone("p1")
    \/ LogsDone("p1")
    \/ SpinUpResponds("p1", LaunchUser)
    \/ \E c \in ContainerIds : CodeServerListens(c)
    \/ ProbeSettles
    \/ TryLoad

\* one dashboard launching codespaces through the spin-up route
SpecLaunch == Init /\ [][NextLaunch]_vars

(***************************************************************************)
(* The editor URL of a workspace and the URL a submission is captured from *)
(***************************************************************************)
EphemeralBase == 32768

\* `await getPort()` before container c is created: a free port the system
\* hands out from its ephemeral range. The code only passes the number on,
\* so the port of container c is written as the c-th of the range
HostPort(c) == EphemeralBase + c

\* `http://localhost:${port}`
LocalUrl(port) == <<"http://localhost:", port>>

\* the url spinUpContainer returns for container c
EditorUrl(c) == LocalUrl(HostPort(c))

\* the containerUrl of the route of /api/submit
SubmitUrl(u) == LocalUrl(8080 + u)

NextSubmit ==
    \/ \E u \in Students : SpinUpContainer("p1", u, "JavaScript")
    \/ CleanupStopDone("p1")
    \/ SpinUpAfterCleanup("p1")
    \/ GetPortDone("p1")
    \/ CreateContainerDone("p1")
    \/ StartDone("p1")
    \/ InspectDone("p1")
    \/ LogsDone("p1")
    \/ \E u \in Students : SubmitCode("t1", u)
    \/ CreateSubmissionDone("t1")
    \/ CaptureStep("t1")

\* a student with a workspace submitting code
SpecSubmit == Init /\ [][NextSubmit]_vars

(***************************************************************************)
(* PuppeteerScreenshotService: the shared browser, the screen size cache,  *)
(* cleanup(), and the shutdown handlers of the process                     *)
(***************************************************************************)
MaxInits == 2

\* concurrent callers of initBrowser
Callers == {"k1", "k2"}

\* initBrowser() up to its first await: the handle when there is one, else
\* getSystemScreenSize, which returns the cached size or launches the
\* detection browser
InitBrowser(k) ==
    /\ ~svc.exited
    /\ svc.call[k].pc \in {"idle", "done"}
    /\ svc.inits < MaxInits
    /\ svc' = [svc EXCEPT
                 !.inits = @ + 1,
                 !.call[k] = IF svc.browser # 0 THEN [pc |-> "done", out |-> svc.browser]
                             ELSE IF svc.systemScreenSize # "null"
                             THEN [pc |-> "launch", out |-> 0]
                             ELSE [pc |-> "detect", out |-> 0],
                 !.returned = IF svc.browser = 0 /\ svc.systemScreenSize # "null"
                              THEN @ \cup {svc.systemScreenSize} ELSE @,
                 !.detections = IF svc.browser = 0 /\ svc.systemScreenSize = "null"
                                THEN @ + 1 ELSE @]
    /\ UNCHANGED <<codespaceUrl, subject, interval, timers, inflight, sent, launch>>
    /\ UNCHANGED <<provVars, capVars>>

\* the awaits of getSystemScreenSize settle: the size read from the page, or
\* 1920x1080 from the catch block; initBrowser then awaits puppeteer.launch
DetectDone(k) ==
    /\ ~svc.exited
    /\ svc.call[k].pc = "detect"
    /\ \E size \in {"detected", "default"} :
         svc' = [svc EXCEPT !.systemScreenSize = size, !.returned = @ \cup {size},
                            !.call[k].pc = "launch"]
    /\ UNCHANGED <<codespaceUrl, subject, interval, timers, inflight, sent, launch>>
    /\ UNCHANGED <<provVars, capVars>>

\* `this.browser = await puppeteer.launch(...)` settles
LaunchDone(k) ==
    /\ ~svc.exited
    /\ svc.call[k].pc = "launch"
    /\ \/ svc' = [svc EXCEPT !.browser = svc.launched + 1, !.launched = @ + 1,
                             !.live = @ \cup {svc.launched + 1},
                             !.call[k] = [pc |-> "done", out |-> svc.launched + 1]]
       \/ svc' = [svc EXCEPT !.call[k] = [pc |-> "done", out |-> -1]]
    /\ UNCHANGED <<codespaceUrl, subject, interval, timers, inflight, sent, launch>>
    /\ UNCHANGED <<provVars, capVars>>

\* cleanup() up to its await, called by handler h: "close" while
\* browser.close() is awaited, "done" when there was no browser
CleanupCall(s, h) ==
    [s EXCEPT !.cleanup[h] = IF s.browser # 0 THEN "close" ELSE "done"]

\* the unhandledRejection handler, on a rejection somewhere in the process:
\* cleanup, then killOrphanedBrowsers, and no exit
UnhandledRejection ==
    /\ ~svc.exited
    /\ svc.cleanup["rejection"] = "idle"
    /\ svc' = CleanupCall(svc, "rejection")
    /\ UNCHANGED <<codespaceUrl, subject, interval, timers, inflight, sent, launch>>
    /\ UNCHANGED <<provVars, capVars>>

\* `await this.browser.close()` of cleanup() settles: this.browser = null
\* in the try block and in the catch block
CloseDone(h) ==
    /\ ~svc.exited
    /\ svc.cleanup[h] = "close"
    /\ \E ok \in BOOLEAN :
         svc' = [svc EXCEPT !.live = IF ok THEN @ \ {svc.browser} ELSE @,
                            !.browser = 0, !.cleanup[h] = "done"]
    /\ UNCHANGED <<codespaceUrl, subject, interval, timers, inflight, sent, launch>>
    /\ UNCHANGED <<provVars, capVars>>

\* SIGINT or SIGTERM: the listener of the capture service runs to its
\* `await puppeteerService.cleanup()`, then the listener of the server entry
\* to the first await of cleanupAllContainers
Signal(p) ==
    /\ ~svc.exited /\ ~svc.sig
    /\ Free(p)
    /\ svc' = [CleanupCall(svc, "signal") EXCEPT !.sig = TRUE, !.entry = "cleanupAll"]
    /\ LET r == CleanupAllStep([IdleFrame EXCEPT !.op = "cleanupAll"], 0,
                               activeContainers) IN
         Commit(r.map, [prov EXCEPT ![p] = r.frame])
    /\ UNCHANGED <<docker, owner>>
    /\ UNCHANGED <<codespaceUrl, subject, interval, timers, inflight, sent, launch>>
    /\ UNCHANGED capVars

\* the listener of the server entry after `await cleanupAllContainers()`:
\* mongoService.disconnect() is awaited
EntryDisconnects(p) ==
    /\ ~svc.exited
    /\ svc.entry = "cleanupAll"
    /\ prov[p].pc = "idle" /\ prov[p].out = "returned"
    /\ svc' = [svc EXCEPT !.entry = "disconnect"]
    /\ UNCHANGED <<codespaceUrl, subject, interval, timers, inflight, sent, launch>>
    /\ UNCHANGED <<provVars, capVars>>

\* process.exit(0): by the listener of the server entry after disconnect(),
\* or by the one of the capture service after cleanup() and
\* killOrphanedBrowsers()
ProcessExit ==
    /\ ~svc.exited
    /\ svc.entry = "disconnect" \/ (svc.sig /\ svc.cleanup["signal"] = "done")
    /\ svc' = [svc EXCEPT !.exited = TRUE]
    /\ UNCHANGED <<codespaceUrl, subject, interval, timers, inflight, sent, launch>>
    /\ UNCHANGED <<provVars, capVars>>

NextService ==
    \/ \E k \in Callers : InitBrowser(k)
    \/ \E k \in Callers : DetectDone(k)
    \/ \E k \in Callers : LaunchDone(k)
    \/ UnhandledRejection
    \/ \E h \in {"signal", "rejection"} : CloseDone(h)
    \/ ~svc.exited /\ SpinUpContainer("p1", 1, "JavaScript")
    \/ ~svc.exited /\ SpinUpAfterCleanup("p1")
    \/ ~svc.exited /\ GetPortDone("p1")
    \/ ~svc.exited /\ CreateContainerDone("p1")
    \/ ~svc.exited /\ StartDone("p1")
    \/ ~svc.exited /\ InspectDone("p1")
    \/ ~svc.exited /\ LogsDone("p1")
    \/ Signal("p2")
    \/ ~svc.exited /\ \E p \in Procs : CleanupStopDone(p)
    \/ ~svc.exited /\ CleanupAllAfterCleanup("p2")
    \/ EntryDisconnects("p2")
    \/ ProcessExit

\* the capture service and the container manager of one process up to its exit
SpecService == Init /\ [][NextService]_vars



(***************************************************************************)
(* C1: at most one live editor instance exists per userId, after any       *)
(* sequence of provision, release and releaseAll calls, interleaved ones   *)
(* included.                                                               *)
(***************************************************************************)
C1_AtMostOneLivePerUser == \A u \in Users : Cardinality(Live(u)) <= 1

(***************************************************************************)
(* C2: every capture request that a route has answered (submission,        *)
(* manual, desktop, admin-test, debug) has exactly one entry in the        *)
(* activity log when its capture succeeded, and none when it failed; a     *)
(* request whose createLog call was rejected is left aside.                *)
(***************************************************************************)
C2_OneLogEntryPerCapture ==
    \A t \in Tasks :
      cap[t].pc = "done" /\ cap[t].route \in CaptureRoutes /\ "log" \notin cap[t].softFails
        => Cardinality({i \in DOMAIN logs : logs[i].req = cap[t].id})
             = IF cap[t].res = "ok" THEN 1 ELSE 0

(***************************************************************************)
(* C3: of two concurrent manual captures, each finds the staging file of   *)
(* its own screenshot untouched until it has read it, and every artifact   *)
(* in the store holds the image of the request it was saved for.           *)
(***************************************************************************)
C3_ConcurrentCapturesKeepTheirOwnFile ==
    /\ \A t \in Tasks :
         cap[t].route = "manual" /\ cap[t].res = "ok"
                                 /\ cap[t].pc \in {"pageClose", "captured"}
           => FileExists(cap[t].file) /\ files[cap[t].file] = cap[t].id
    /\ \A i \in DOMAIN store : store[i].image = JpegDataUri(store[i].req)

C6_SubmissionAnsweredBeforeCapture ==
    \A t \in Tasks :
      cap[t].route = "submit" /\ cap[t].pc \notin {"idle", "createSubmission", "done"}
        => cap[t].resp = Resp(201, TRUE)

\* the submission was answered and its capture has not completed a step
C6_AnsweredAtFirstCaptureStep ==
    \E t \in Tasks :
      /\ cap[t].route = "submit" /\ cap[t].pc = "initBrowser"
      /\ cap[t].resp = Resp(201, TRUE)

(***************************************************************************)
(* C7: a submission that was persisted is answered 201 whatever its        *)
(* capture does, and nothing is thrown back at the handler; a submission   *)
(* request is refused only when the submission itself was not persisted.   *)
(***************************************************************************)
C7_CaptureNeverFailsSubmission ==
    \A t \in Tasks :
      cap[t].route = "submit" /\ cap[t].pc \notin {"idle", "createSubmission"}
        => IF \E i \in DOMAIN submissions : submissions[i].req = cap[t].id
           THEN cap[t].resp = Resp(201, TRUE) /\ ~cap[t].threw
           ELSE cap[t].pc = "done" /\ cap[t].resp.code \in {400, 500}

\* a submission whose capture failed: persisted and answered 201
C7_SubmissionKeptAfterFailedCapture ==
    \E t \in Tasks :
      /\ cap[t].route = "submit" /\ cap[t].pc = "done" /\ cap[t].res = "fail"
      /\ cap[t].resp = Resp(201, TRUE)
      /\ \E i \in DOMAIN submissions : submissions[i].req = cap[t].id

C9_CaptureFunctionsNeverThrow ==
    \A t \in Tasks :
      /\ ~cap[t].threw
      /\ cap[t].route \in CaptureRoutes /\ cap[t].pc = "returned" /\ cap[t].res # "ok"
           => cap[t].res = "fail" /\ cap[t].err # ""

\* the read of the staging file failed and the wrapper returned the failure
C9_StagingReadFailureReturned ==
    \E t \in Tasks :
      /\ cap[t].pc = "returned" /\ cap[t].res = "fail" /\ cap[t].err = "read"
      /\ ~cap[t].threw

(***************************************************************************)
(* C10: an editor capture fails only at the acquisition of the page and    *)
(* its navigation or at the production of the final image; nothing in      *)
(* between can make it fail.                                               *)
(***************************************************************************)
C10_OnlyNavigationAndScreenshotFail ==
    \A t \in Tasks :
      cap[t].kind = "user" /\ cap[t].res = "fail" /\ cap[t].pc \in {"pageClose", "captured"}
        => cap[t].err \in {"initBrowser", "newPage", "viewport", "goto",
                           "mkdir", "screenshot"}

(***************************************************************************)
(* C11: a call of spinUpContainer with a subject outside {JavaScript,      *)
(* Python, Java, C++} settles with the `No Docker image defined` error,    *)
(* which the route answers with 400, and the step that settles it creates, *)
(* starts and tracks nothing.                                              *)
(***************************************************************************)
C11_UnsupportedSubjectRejected ==
    [][\A p \in Procs :
         /\ prov[p].op = "spinUp" /\ prov[p].pc \in {"getPort", "create"}
         /\ prov[p].subject \notin SupportedSubjects
         /\ prov'[p].pc = "idle"
         => /\ SpinUpStatus(prov'[p].out) = 400
            /\ docker' = docker /\ owner' = owner
            /\ activeContainers' = activeContainers]_vars

(***************************************************************************)
(* C12: a call of stopContainer always returns without error, and one      *)
(* made on a container that was already stopped changes neither the        *)
(* containers nor the tracking map.                                        *)
(***************************************************************************)
C12_StopTwiceIsNoOp ==
    [][\A p \in Procs :
         prov[p].pc = "sc_stop" /\ prov'[p].pc = "idle"
         => /\ prov'[p].out = "returned"
            /\ docker[prov[p].cur] = "gone"
                 => /\ docker' = docker /\ owner' = owner
                    /\ \A u \in Users : Tracked(u)' = Tracked(u)]_vars

\* a stopContainer call on an already stopped container has returned
C12_SecondStopReturned ==
    \E p \in Procs : prov[p].pc = "idle" /\ prov[p].out = "returned" /\ prov[p].stale

(***************************************************************************)
(* C13: a call of cleanupAllContainers returns without error with the      *)
(* tracking map empty, goes on after a stop that failed, and takes no      *)
(* container out of the tracking map that it has not tried to stop.        *)
(***************************************************************************)
C13_CleanupAllStopsEveryTracked ==
    [][\A p \in Procs :
         /\ prov[p].op = "cleanupAll"
         /\ <<prov[p].pc, prov[p].idx, prov[p].cur>> # <<prov'[p].pc, prov'[p].idx, prov'[p].cur>>
         => /\ AllTracked \ AllTracked' \subseteq prov[p].tried \cup {prov[p].cur}
            /\ prov'[p].pc = "idle" => prov'[p].out = "returned" /\ AllTracked' = {}]_vars

(***************************************************************************)
(* C14: the route finds, for the filename of every artifact in the store,  *)
(* that very artifact, with the image and the metadata it was saved with,  *)
(* whatever else was saved after it.                                       *)
(***************************************************************************)
C14_SavedArtifactFetchedBack ==
    \A i \in DOMAIN store :
      store[i].file # NoPath
        => /\ TargetScreenshot(store, store[i].file) # 0
           /\ store[TargetScreenshot(store, store[i].file)] = store[i]

(***************************************************************************)
(* C15: a request for a filename that is answered with an image serves the *)
(* artifact or the staging file of exactly that filename.                  *)
(***************************************************************************)
C15_FetchServesRequestedArtifact ==
    \A t \in Tasks :
      cap[t].route = "fetch" /\ cap[t].pc = "done" /\ cap[t].resp.code = 200
        => \/ /\ cap[t].file \in DOMAIN files
              /\ cap[t].served = [req |-> files[cap[t].file], bytes |-> files[cap[t].file],
                                  name |-> cap[t].file]
           \/ \E i \in DOMAIN store : /\ store[i].file = cap[t].file
                                       /\ store[i].req = cap[t].served.req

(***************************************************************************)
(* C16: a save wrapper removes the staging file of its capture only in the *)
(* step in which saveScreenshot resolved, with the artifact in the store.  *)
(* When saveScreenshot rejects the file stays and the wrapper returns      *)
(* success false; when it resolves the wrapper returns success true and    *)
(* the file is gone unless unlinkSync threw.                               *)
(***************************************************************************)
C16_StagingFileRemovedAfterSave ==
    [][\A t \in Tasks :
         /\ cap[t].pc \in {"insert", "findOne"}
         /\ ~Direct(cap[t])
         /\ cap'[t] # cap[t]
         => /\ cap[t].file \in DOMAIN files /\ cap[t].file \notin DOMAIN files'
                 => /\ \E i \in DOMAIN store' : store'[i].req = cap[t].id
                    /\ cap'[t].pc = "returned" /\ cap'[t].res = "ok"
            /\ cap'[t].err = "save"
                 => /\ files' = files
                    /\ cap'[t].pc = "returned" /\ cap'[t].res = "fail"
            /\ cap[t].pc = "findOne" /\ cap'[t].err # "save"
                 => /\ cap'[t].res = "ok"
                    /\ cap[t].file \in DOMAIN files'
                         => "unlink" \in cap'[t].softFails]_vars

\* C16: a wrapper returned success false after saveScreenshot rejected, and
\* the staging file of its capture is still there
C16_StagingFileLeftAfterFailedSave ==
    \E t \in Tasks : /\ cap[t].pc = "returned" /\ cap[t].err = "save"
                     /\ cap[t].res = "fail" /\ cap[t].file \in DOMAIN files

(***************************************************************************)
(* C17: a container that createContainer made for a spinUpContainer call   *)
(* that then rejects (its provisioning failed in Starting) is gone when    *)
(* the call settles: it is not left created or running.                    *)
(***************************************************************************)
C17_FailedProvisionEndsGone ==
    [][\A p \in Procs :
         /\ prov[p].op = "spinUp" /\ prov[p].cid # 0
         /\ prov'[p].pc = "idle" /\ prov'[p].out = "threw"
         => docker'[prov[p].cid] = "gone"]_vars

(***************************************************************************)
(* C18: the dashboard reports a launch as ready, with the url of the       *)
(* spin-up response as its codespace, only after a probe that the instance *)
(* answered.                                                               *)
(***************************************************************************)
C18_ReadyOnlyAfterInstanceAnswered ==
    launch.toast = "launched" => launch.url # NoUrl /\ launch.answered

(***************************************************************************)
(* C19: the response of a manual or admin-triggered capture request        *)
(* carries success true only when an artifact of the request was captured  *)
(* and persisted, and success false with the error otherwise.              *)
(***************************************************************************)
C19_SuccessFlagMeansPersisted ==
    \A t \in Tasks :
      /\ cap[t].route \in {"manual", "desktop", "adminTest", "adminDesktop", "bulk"}
      /\ cap[t].pc = "done"
      => (cap[t].resp.success => \E i \in DOMAIN store : store[i].req = cap[t].id)

(***************************************************************************)
(* C20: the content detection of a capture reports content found for a     *)
(* page with a view-lines node that contains `function isPrime(num)`, and  *)
(* content not found for a page whose view-lines nodes, tabs and terminals *)
(* show placeholder text only; the capture goes on in both cases.          *)
(***************************************************************************)
C20_ContentCheckTellsCodeFromPlaceholder ==
    [][\A t \in Tasks :
         /\ cap[t].pc = "content"
         /\ cap'[t].pc # "content"
         /\ "content" \notin cap'[t].softFails
         => /\ cap'[t].pc = "mkdir"
            /\ (\E i \in DOMAIN cap[t].page.viewLines :
                   Includes(cap[t].page.viewLines[i], IsPrimeText))
                 => cap'[t].hasContent.found
            /\ (/\ cap[t].page.viewLines # <<>>
                /\ \A i \in DOMAIN cap[t].page.viewLines :
                     \E ph \in PlaceholderTexts : Includes(cap[t].page.viewLines[i], ph)
                /\ cap[t].page.tabs = {WelcomeTab}
                /\ cap[t].page.terminals = {})
                 => ~cap'[t].hasContent.found]_vars

(***************************************************************************)
(* C23: every running container whose spinUpContainer call is no longer    *)
(* between start() and the tracking is held by the tracking map under the  *)
(* user it was started for.                                                *)
(***************************************************************************)
C23_NoLiveContainerUntracked ==
    \A c \in ContainerIds :
      /\ docker[c] = "running"
      /\ \A p \in Procs : ~(prov[p].cid = c /\ prov[p].pc = "inspect")
      => c \in Tracked(owner[c])

(***************************************************************************)
(* C29: no step of a spinUpContainer call for a subject without an image   *)
(* stops a container or changes what is tracked for the user of the call.  *)
(***************************************************************************)
C29_UnsupportedSubjectLeavesInstance ==
    [][\A p \in Procs :
         /\ prov[p].op = "spinUp"
         /\ prov[p].subject \in SubjectInputs
         /\ subjectToImage(prov[p].subject) = "undefined"
         /\ <<prov[p].pc, prov[p].idx, prov[p].cur>> # <<prov'[p].pc, prov'[p].idx, prov'[p].cur>>
         => /\ docker' = docker
            /\ Tracked(prov[p].user)' = Tracked(prov[p].user)]_vars

(***************************************************************************)
(* C30: when stopContainer returns for a container that is stopped, be it  *)
(* by this call or before it, no user tracks the container any more, and   *)
(* nothing else changed in the tracking map.                               *)
(***************************************************************************)
C30_StoppedContainerUntracked ==
    [][\A p \in Procs :
         /\ prov[p].pc = "sc_stop" /\ prov'[p].pc = "idle"
         /\ docker'[prov[p].cur] = "gone"
         => /\ prov[p].cur \notin AllTracked'
            /\ \A u \in Users : Tracked(u)' \ {prov[p].cur} = Tracked(u) \ {prov[p].cur}]_vars

(***************************************************************************)
(* C21: when the process has exited after SIGINT or SIGTERM, no tracked    *)
(* container is still running and the shared browser has been closed.      *)
(***************************************************************************)
C21_ExitAfterContainersAndBrowser ==
    svc.exited => /\ \A c \in AllTracked : docker[c] # "running"
                  /\ svc.browser = 0

(***************************************************************************)
(* C22: at most one shared browser launched by initBrowser is live.        *)
(***************************************************************************)
C22_AtMostOneSharedBrowser == Cardinality(svc.live) <= 1

(***************************************************************************)
(* C27: the detection browser is launched at most once, and every call of  *)
(* getSystemScreenSize returns the same size.                              *)
(***************************************************************************)
C27_ScreenSizeDetectedOnce ==
    svc.detections <= 1 /\ Cardinality(svc.returned) <= 1

(***************************************************************************)
(* C24: every entry of the activity log belongs to a capture whose         *)
(* artifact is in the store; the store only grows, so the artifact was     *)
(* there when the entry was appended.                                      *)
(***************************************************************************)
C24_LogEntryHasStoredArtifact ==
    \A i \in DOMAIN logs : \E j \in DOMAIN store : store[j].req = logs[i].req

\* a manual capture was answered after its log entry was appended
C24_ManualCaptureLogged ==
    \E t \in Tasks :
      /\ cap[t].pc = "done" /\ cap[t].route = "manual"
      /\ \E i \in DOMAIN logs : logs[i].req = cap[t].id

(***************************************************************************)
(* C25: within one editor capture the steps follow the order navigation,   *)
(* authentication probe, trust-dialog dismissal, workspace normalization,  *)
(* content-readiness check, image capture: no step of a capture is         *)
(* followed by a step that comes earlier in this order.                    *)
(***************************************************************************)
C25_StepsInSpecifiedOrder ==
    [][\A t \in Tasks :
         LET order == <<"goto", "listButtons", "auth", "trust", "workspace",
                        "content", "mkdir", "screenshot">>
             pos(s) == CHOOSE i \in DOMAIN order : order[i] = s
             steps == {order[i] : i \in DOMAIN order} IN
         cap[t].pc \in steps /\ cap'[t].pc \in steps /\ cap'[t].id = cap[t].id
           => pos(cap[t].pc) <= pos(cap'[t].pc)]_vars

(***************************************************************************)
(* C26: when captureDesktopScreen has returned, the browser it launched    *)
(* for this capture is closed.                                             *)
(***************************************************************************)
C26_DesktopSessionClosedOnReturn ==
    \A t \in Tasks : cap[t].pc = "captured" => cap[t].session # "open"

(***************************************************************************)
(* C28: while the capture of a submission navigates, its URL is the editor *)
(* URL of every running workspace tracked under the submitting user.       *)
(***************************************************************************)
C28_SubmissionCapturedFromSessionUrl ==
    \A t \in Tasks :
      cap[t].route = "submit" /\ cap[t].pc = "goto"
        => \A c \in Tracked(cap[t].user) :
             docker[c] = "running" => SubmitUrl(cap[t].user) = EditorUrl(c)

====
